---- MODULE Spec2Model ----
(***************************************************************************)
(* Random Jump Consistent Hashing with bounded loads: the class            *)
(* RandomJumpConsistentHashing of src/RandomJumpConsistentHashing.py.      *)
(*                                                                         *)
(* The state is the object's fields.  Every call of np.random.randint is   *)
(* a nondeterministic draw, so an action is the code between two draws:    *)
(* one iteration of a probe loop, or one step of the fillBinOne recursion. *)
(* fillBinOne's recursion is kept as an explicit stack of frames.          *)
(***************************************************************************)
EXTENDS Integers, Sequences, FiniteSets, TLC

\* Length of serversArray.  The code uses 2**20 (line 118); the model uses a
\* short ring so that the draws can be enumerated.
RingLen == 3

\* Longest probe history the model lets a placement record; the code has no
\* limit (lines 148-150, 236-238).
MaxHist == 3

\* Most calls of addOneObject the model lets one run make; the code has no
\* limit.
MaxAdds == 1

\* The marker of an unowned slot of serversArray (line 118).
EmptySlot == -1

\* objectsCurrent of an object the initial load has not placed yet.  The code
\* writes 0.5 there (line 139): a value that is no slot index.
Unplaced == -2

VARIABLES
    pc,                        \* where the program is: see PcValues
    serversCount,              \* self.serversCount
    duplicatesCount,           \* self.duplicatesCount
    loadCap,                   \* self.loadCap
    objectsCount,              \* self.objectsCount
    totalObjectsAndPastCount,  \* self.totalObjectsAndPastCount
    totalFull,                 \* self.totalFull
    servers,                   \* self.servers: server -> load
    fullFlag,                  \* self.fullFlag: server -> BOOLEAN
    serversToIdx,              \* self.serversToIdx: server -> its slots, in order
    serversArray,              \* self.serversArray: slot -> server or EmptySlot
    serversContains,           \* self.serversContains: server -> set of objects
    objectsHistory,            \* self.objectsHistory: object -> probed slots
    objectsCurrent,            \* self.objectsCurrent: object -> slot
    loopI,                     \* start(): the i of the loop being run
    dups,                      \* start(): the list dups of line 123
    stack,                     \* the frames of fillBinOne, outermost first
    seeded,                    \* whether start() runs on the seeded draws
    adds,                      \* calls of addOneObject so far
    removed,                   \* the last call of addOneObject or
                               \* removeOneObject, if a removal: server, its flag
    searched,                  \* servers, in order, that began a mover search
                               \* in the running call of removeOneObject
    moved,                     \* the relocation the last step made, if any
    tried                      \* the last call, if of assignObjectServersTried:
                               \* its draws and what it returned

vars == <<pc, serversCount, duplicatesCount, loadCap, objectsCount,
          totalObjectsAndPastCount, totalFull, servers, fullFlag, serversToIdx,
          serversArray, serversContains, objectsHistory, objectsCurrent,
          loopI, dups, stack, seeded, adds, removed, searched, moved, tried>>

config == <<serversCount, duplicatesCount, loadCap, seeded>>
ring == <<serversToIdx, serversArray>>
registry == <<objectsCount, totalObjectsAndPastCount, totalFull, servers,
              fullFlag, serversContains, objectsHistory, objectsCurrent>>

\* "new": constructed, start() not called.  "ring": start() is assigning
\* duplicates (lines 122-130).  "load": start() is placing the initial objects
\* (lines 142-159).  "idle": between two calls.  "add": inside the probe loop
\* of addOneObject (lines 236-238).  "fill": inside removeOneObject's call of
\* fillBinOne (line 277).
PcValues == {"new", "ring", "load", "idle", "add", "fill"}

Slots == 0 .. (RingLen - 1)

\* removed, when the last call was no removal
NoRemoval == [key |-> EmptySlot, wasFull |-> FALSE]

\* moved, when the last step relocated nothing
NoMove == [obj |-> Unplaced]

\* tried, when the last call was not of assignObjectServersTried
NoTried == [counter |-> 0]

----------------------------------------------------------------------------
\* Helpers

CeilDiv(a, b) == (a + b - 1) \div b

\* line 106: int(np.ceil((1 + epsilon) * objects / servers)), with epsilon the
\* fraction epsNum / epsDen
LoadCapOf(srv, objs, epsNum, epsDen) ==
    CeilDiv((epsDen + epsNum) * objs, epsDen * srv)

Range(s) == {s[k] : k \in DOMAIN s}

\* list.index(x): the first position of x in s (counted from 1 here)
IndexOf(s, x) == CHOOSE k \in DOMAIN s : s[k] = x /\ \A j \in 1 .. (k - 1) : s[j] # x

\* every order np.random.shuffle can leave a list in
Shuffles(s) ==
    LET n == Len(s)
        perms == {p \in [1 .. n -> 1 .. n] : \A a, b \in 1 .. n : p[a] = p[b] => a = b}
    IN  {[k \in 1 .. n |-> s[p[k]]] : p \in perms}

PutNot(f, k, v) == f

\* dict[k] = v and dict.pop(k)
Put(f, k, v) == [x \in (DOMAIN f) \cup {k} |-> IF x = k THEN v ELSE f[x]]
Pop(f, k) == [x \in (DOMAIN f) \ {k} |-> f[x]]

RejectsEmptyOnly(num) == serversArray[num] = EmptySlot

\* the condition of a probe loop (lines 148, 236): the slot has no server, or
\* its server is flagged full
Rejects(num) == serversArray[num] = EmptySlot \/ fullFlag[serversArray[num]]

IncrementNot(loads, key) == loads

\* self.servers[key] += 1 (lines 154, 243, 303)
Increment(loads, key) == [loads EXCEPT ![key] = @ + 1]

DecrementNot(loads, key) == loads

\* self.servers[key] -= 1 (lines 266, 306)
Decrement(loads, key) == [loads EXCEPT ![key] = @ - 1]

DiscardNot(contains, key, obj) == contains

\* self.serversContains[key].remove(obj) (lines 264, 305)
Discard(contains, key, obj) == [contains EXCEPT ![key] = @ \ {obj}]

TruncatedNot(hist, s) == hist

TruncatedShort(hist, s) == SubSeq(hist, 1, IndexOf(hist, s) - 1)

TruncatedAtLast(hist, s) ==
    SubSeq(hist, 1, CHOOSE k \in DOMAIN hist :
                        hist[k] = s /\ \A j \in (k + 1) .. Len(hist) : hist[j] # s)

\* lines 311-312: the history up to the first occurrence of slot s, s included
Truncated(hist, s) == SubSeq(hist, 1, IndexOf(hist, s))

----------------------------------------------------------------------------
\* __init__ (lines 93-107), and the random source handed to start()

InitWith(srv, dupl, objs, epsNum, epsDen, seed) ==
    /\ pc = "new"
    /\ serversCount = srv
    /\ duplicatesCount = dupl
    /\ objectsCount = objs
    /\ totalObjectsAndPastCount = objs
    /\ loadCap = LoadCapOf(srv, objs, epsNum, epsDen)
    /\ totalFull = 0
    /\ servers = <<>>
    /\ fullFlag = <<>>
    /\ serversToIdx = <<>>
    /\ serversArray = <<>>
    /\ serversContains = <<>>
    /\ objectsHistory = <<>>
    /\ objectsCurrent = <<>>
    /\ loopI = 0
    /\ dups = <<>>
    /\ stack = <<>>
    /\ seeded = seed
    /\ adds = 0
    /\ removed = NoRemoval
    /\ searched = <<>>
    /\ moved = NoMove
    /\ tried = NoTried

\* Three constructions.
\* RandomJumpConsistentHashing(servers=2, duplicates=1, objects=4, epsilon=0):
\* loadCap is 2, the initial load fills both servers, and start() draws
\* freely.
\* RandomJumpConsistentHashing(servers=3, duplicates=1, objects=6, epsilon=0):
\* loadCap is 2 and the initial load fills the three servers.  The draws of
\* start() are too many to enumerate with three servers, so start() runs
\* there on a seeded random source: see SeedRing and SeedHistory.  The calls
\* that follow start() draw freely in both.
\* RandomJumpConsistentHashing(servers=1, duplicates=2, objects=2, epsilon=0):
\* one server with two slots of the ring, loadCap 2, free draws.
Init ==
    \/ InitWith(2, 1, 4, 0, 1, FALSE)
    \/ InitWith(3, 1, 6, 0, 1, TRUE)
    \/ InitWith(1, 2, 2, 0, 1, FALSE)

\* the slots the seeded start() draws for the duplicates of server 0, 1, 2
SeedRing == << <<0>>, <<1>>, <<2>> >>

\* the slots the seeded start() draws for object 0, 1, ... 5
SeedHistory == <<
    <<0>>, <<0>>, <<0, 1>>, <<0, 1>>, <<1, 0, 2>>, <<0, 2>> >>

\* np.random.randint(0, self.serversArrayLen) at lines 125-127
RingDraws ==
    IF seeded THEN {SeedRing[loopI + 1][Len(dups) + 1]} ELSE Slots

\* np.random.randint(0, self.serversArrayLen) at lines 144 and 149
LoadDraws ==
    IF seeded
    THEN LET h == SeedHistory[loopI + 1]
             k == Len(objectsHistory[loopI]) + 1
         IN  IF k <= Len(h) THEN {h[k]} ELSE {}
    ELSE Slots

----------------------------------------------------------------------------
\* start()

\* lines 113-119: the dictionaries of the servers and the empty ring
StartBegin ==
    /\ pc = "new"
    /\ pc' = "ring"
    /\ servers' = [i \in 0 .. (serversCount - 1) |-> 0]
    /\ fullFlag' = [i \in 0 .. (serversCount - 1) |-> FALSE]
    /\ serversToIdx' = <<>>
    /\ serversArray' = [s \in Slots |-> EmptySlot]
    /\ loopI' = 0
    /\ dups' = <<>>
    /\ UNCHANGED <<config, objectsCount, totalObjectsAndPastCount, totalFull,
                   serversContains, objectsHistory, objectsCurrent, stack,
                   adds, removed, searched, moved, tried>>

\* lines 124-130: one duplicate of server loopI gets a free slot.  The draws
\* that hit an owned slot (lines 126-127) change nothing, so the action takes
\* the draw that ends the loop.  After the last duplicate of the last server,
\* lines 133-139 build the registries.
AssignDuplicate ==
    /\ pc = "ring"
    /\ \E cur \in RingDraws :
        /\ serversArray[cur] = EmptySlot
        /\ serversArray' = [serversArray EXCEPT ![cur] = loopI]
        /\ LET d == Append(dups, cur)
               lastDup == Len(d) = duplicatesCount
               lastServer == loopI = serversCount - 1
           IN  /\ dups' = IF lastDup THEN <<>> ELSE d
               /\ serversToIdx' = IF lastDup THEN Put(serversToIdx, loopI, d)
                                  ELSE serversToIdx
               /\ loopI' = IF lastDup /\ ~lastServer THEN loopI + 1
                           ELSE IF lastDup THEN 0 ELSE loopI
               /\ IF lastDup /\ lastServer
                  THEN /\ serversContains' = [i \in 0 .. (serversCount - 1) |-> {}]
                       /\ objectsHistory' = [i \in 0 .. (objectsCount - 1) |-> <<>>]
                       /\ objectsCurrent' = [i \in 0 .. (objectsCount - 1) |-> Unplaced]
                       /\ pc' = IF objectsCount = 0 THEN "idle" ELSE "load"
                  ELSE UNCHANGED <<serversContains, objectsHistory, objectsCurrent, pc>>
    /\ UNCHANGED <<config, objectsCount, totalObjectsAndPastCount, totalFull,
                   servers, fullFlag, stack, adds, removed, searched, moved,
                   tried>>

AcceptNoFlag(obj, num) ==
    /\ serversContains' =
           [serversContains EXCEPT ![serversArray[num]] = @ \cup {obj}]
    /\ servers' = [servers EXCEPT ![serversArray[num]] = @ + 1]
    /\ UNCHANGED <<fullFlag, totalFull>>
    /\ objectsCurrent' = [x \in (DOMAIN objectsCurrent) \cup {obj} |->
                              IF x = obj THEN num ELSE objectsCurrent[x]]

\* The end of a probe loop (lines 152-159 and 240-249): object obj takes slot
\* num, whose server gets one more object and is flagged full when its load
\* is loadCap.
Accept(obj, num) ==
    LET curServer == serversArray[num]
        loads == Increment(servers, curServer)
        full == loads[curServer] = loadCap
    IN  /\ serversContains' =
               [serversContains EXCEPT ![curServer] = @ \cup {obj}]
        /\ servers' = loads
        /\ fullFlag' = IF full THEN [fullFlag EXCEPT ![curServer] = TRUE]
                       ELSE fullFlag
        /\ totalFull' = IF full THEN totalFull + 1 ELSE totalFull
        /\ objectsCurrent' = Put(objectsCurrent, obj, num)

\* lines 144-159: one draw for object loopI of the initial load.  The slot is
\* appended to the history whatever it holds; a slot that the loop condition
\* does not reject ends the loop and the object is placed.
StartProbe ==
    /\ pc = "load"
    /\ Len(objectsHistory[loopI]) < MaxHist
    /\ \E num \in LoadDraws :
        /\ objectsHistory' = [objectsHistory EXCEPT ![loopI] = Append(@, num)]
        /\ IF Rejects(num)
           THEN UNCHANGED <<serversContains, servers, fullFlag, totalFull,
                            objectsCurrent, loopI, pc>>
           ELSE /\ Accept(loopI, num)
                /\ loopI' = IF loopI = objectsCount - 1 THEN 0 ELSE loopI + 1
                /\ pc' = IF loopI = objectsCount - 1 THEN "idle" ELSE "load"
    /\ UNCHANGED <<config, ring, objectsCount, totalObjectsAndPastCount, dups,
                   stack, adds, removed, searched, moved, tried>>

----------------------------------------------------------------------------
\* addOneObject()

\* lines 230-251: one draw of addOneObject.  The first draw starts the history
\* of the new object (line 233), a later one appends to it (line 238).  A slot
\* the loop condition rejects leaves the call inside its loop; any other slot
\* ends the loop and lines 240-251 place the object.
AddProbe(first) ==
    /\ \E num \in Slots :
        LET obj == totalObjectsAndPastCount
            hist == IF first THEN <<num>> ELSE Append(objectsHistory[obj], num)
        IN  /\ Len(hist) <= MaxHist
            /\ objectsHistory' = Put(objectsHistory, obj, hist)
            /\ IF Rejects(num)
               THEN /\ pc' = "add"
                    /\ UNCHANGED <<serversContains, servers, fullFlag, totalFull,
                                   objectsCurrent, objectsCount,
                                   totalObjectsAndPastCount>>
               ELSE /\ pc' = "idle"
                    /\ Accept(obj, num)
                    /\ objectsCount' = objectsCount + 1
                    /\ totalObjectsAndPastCount' = totalObjectsAndPastCount + 1
    /\ removed' = NoRemoval
    /\ moved' = NoMove
    /\ tried' = NoTried
    /\ UNCHANGED <<config, ring, loopI, dups, stack, searched>>

\* lines 230-233, then the loop test of line 236
addOneObject ==
    /\ pc = "idle"
    /\ adds < MaxAdds
    /\ adds' = adds + 1
    /\ AddProbe(TRUE)

\* lines 237-238, then the loop test of line 236
AddRetry ==
    /\ pc = "add"
    /\ adds' = adds
    /\ AddProbe(FALSE)

----------------------------------------------------------------------------
\* fillBinOne(serverIdx)

\* A frame of fillBinOne: key is serverKey; order is the shuffled dups of line
\* 291; todo holds the objects of lstObjects the loop of line 297 has not
\* reached (np.random.shuffle gives any order, so the next object is any of
\* them); cur is the object of the running iteration, if any, and rest the
\* slots the loop of line 298 has still to test for it; ret says that the call
\* of line 318 has returned and line 321 runs next.
Frame(key, order, objects) ==
    [key |-> key, order |-> order, todo |-> objects,
     cur |-> {}, rest |-> <<>>, ret |-> FALSE]

\* The frame on top of the stack, the frames below it, the object of its
\* running iteration
Top == stack[Len(stack)]
Below == SubSeq(stack, 1, Len(stack) - 1)
CurOf(f) == CHOOSE i \in f.cur : TRUE

ValidMoverAnywhere(i, s, key) == s \in Range(objectsHistory[i])

\* lines 299-300: object i can move to slot s of server key
ValidMover(i, s, key) ==
    /\ s \in Range(objectsHistory[i])
    /\ serversArray[objectsCurrent[i]] # key

\* the first slot of rest that line 299 accepts for object i (0: none)
FirstValid(i, rest, key) ==
    IF \E d \in DOMAIN rest : ValidMover(i, rest[d], key)
    THEN CHOOSE d \in DOMAIN rest :
            /\ ValidMover(i, rest[d], key)
            /\ \A e \in 1 .. (d - 1) : ~ValidMover(i, rest[e], key)
    ELSE 0

\* lines 285-294: the call fillBinOne(serverIdx) made above the frames of
\* callers.  A server that is not exactly one object short returns at once
\* (line 288) and the caller goes on; any other server starts a mover search.
Call(callers, serverIdx) ==
    LET serverKey == serversArray[serverIdx]
    IN  IF servers'[serverKey] # loadCap - 1
        THEN /\ stack' = callers
             /\ searched' = searched
        ELSE /\ \E order \in Shuffles(serversToIdx[serverKey]) :
                    stack' = Append(callers,
                                    Frame(serverKey, order, DOMAIN objectsHistory'))
             /\ searched' = Append(searched, serverKey)

\* lines 302-318: object i moves to slot s of the frame's server, and
\* fillBinOne is called for the slot it leaves.  f is the frame as it is when
\* the call is made, rest the slots still to test for i.
Relocate(f, i, s, rest) ==
    LET serverKey == f.key
        binUnfilled == objectsCurrent[i]
        from == serversArray[binUnfilled]
        waiting == [f EXCEPT !.ret = TRUE, !.rest = rest,
                             !.cur = IF rest = <<>> THEN {} ELSE {i}]
    IN  /\ serversContains' =
               Discard([serversContains EXCEPT ![serverKey] = @ \cup {i}], from, i)
        /\ servers' = Decrement(Increment(servers, serverKey), from)
        /\ fullFlag' = [fullFlag EXCEPT ![from] = FALSE]
        /\ totalFull' = IF fullFlag[from] THEN totalFull - 1 ELSE totalFull
        /\ objectsHistory' = [objectsHistory EXCEPT ![i] = Truncated(@, s)]
        /\ objectsCurrent' = [objectsCurrent EXCEPT ![i] = s]
        /\ moved' = [obj |-> i, slot |-> s, from |-> binUnfilled,
                     key |-> serverKey, hist |-> objectsHistory[i]]
        /\ Call(Append(Below, waiting), binUnfilled)
        /\ UNCHANGED <<objectsCount, totalObjectsAndPastCount>>

\* lines 297-300: the search of the top frame goes on to the next object (or
\* to the next slot of the running one) and relocates it if it is a valid
\* mover.  Tests that fail change nothing and are skipped within the action.
FillSearch ==
    /\ pc = "fill"
    /\ stack # <<>>
    /\ ~Top.ret
    /\ LET f == Top
           running == IF f.cur = {} THEN 0
                      ELSE FirstValid(CurOf(f), f.rest, f.key)
       IN  IF running # 0
           THEN Relocate(f, CurOf(f), f.rest[running],
                         SubSeq(f.rest, running + 1, Len(f.rest)))
           ELSE /\ f.todo # {}
                /\ \E i \in f.todo :
                    LET d == FirstValid(i, f.order, f.key)
                        g == [f EXCEPT !.todo = @ \ {i}, !.cur = {}, !.rest = <<>>]
                    IN  IF d # 0
                        THEN Relocate(g, i, f.order[d],
                                      SubSeq(f.order, d + 1, Len(f.order)))
                        ELSE /\ stack' = Append(Below, g)
                             /\ moved' = NoMove
                             /\ UNCHANGED <<registry, searched>>
    /\ pc' = "fill"
    /\ UNCHANGED <<config, ring, loopI, dups, adds, removed, tried>>

\* The top frame returns: the stack loses it, and the call of removeOneObject
\* ends with the last frame.
Return ==
    /\ stack' = Below
    /\ pc' = IF Len(stack) = 1 THEN "idle" ELSE "fill"
    /\ searched' = IF Len(stack) = 1 THEN <<>> ELSE searched
    /\ moved' = NoMove

\* the end of the loop of line 297: no object is left, the frame returns
FillExhausted ==
    /\ pc = "fill"
    /\ stack # <<>>
    /\ ~Top.ret
    /\ Top.todo = {}
    /\ Top.cur = {} \/ FirstValid(CurOf(Top), Top.rest, Top.key) = 0
    /\ Return
    /\ UNCHANGED <<config, ring, registry, loopI, dups, adds, removed, tried>>

\* lines 321-324, after the call of line 318 has returned: a server that has
\* reached loadCap and is not flagged full is flagged and the frame returns;
\* otherwise the loops go on.
FillAfterCall ==
    /\ pc = "fill"
    /\ stack # <<>>
    /\ Top.ret
    /\ LET serverKey == Top.key
       IN  IF servers[serverKey] = loadCap /\ ~fullFlag[serverKey]
           THEN /\ totalFull' = totalFull + 1
                /\ fullFlag' = [fullFlag EXCEPT ![serverKey] = TRUE]
                /\ Return
           ELSE /\ stack' = [stack EXCEPT ![Len(stack)].ret = FALSE]
                /\ pc' = "fill"
                /\ moved' = NoMove
                /\ UNCHANGED <<totalFull, fullFlag, searched>>
    /\ UNCHANGED <<config, ring, objectsCount, totalObjectsAndPastCount, servers,
                   serversContains, objectsHistory, objectsCurrent, loopI, dups,
                   adds, removed, tried>>

----------------------------------------------------------------------------
\* removeOneObject()

\* lines 256-277: a live object, drawn at random, leaves its server; if the
\* server was flagged full the flag is cleared and fillBinOne is called for
\* the object's slot.
removeOneObject ==
    /\ pc = "idle"
    /\ \E objectNum \in DOMAIN objectsCurrent :
        LET serverIdx == objectsCurrent[objectNum]
            serverKey == serversArray[serverIdx]
        IN  /\ serversContains' = Discard(serversContains, serverKey, objectNum)
            /\ servers' = Decrement(servers, serverKey)
            /\ objectsCount' = objectsCount - 1
            /\ objectsCurrent' = Pop(objectsCurrent, objectNum)
            /\ objectsHistory' = Pop(objectsHistory, objectNum)
            /\ removed' = [key |-> serverKey, wasFull |-> fullFlag[serverKey]]
            /\ IF fullFlag[serverKey]
               THEN /\ fullFlag' = [fullFlag EXCEPT ![serverKey] = FALSE]
                    /\ totalFull' = totalFull - 1
                    /\ Call(<<>>, serverIdx)
                    /\ pc' = IF stack' = <<>> THEN "idle" ELSE "fill"
               ELSE UNCHANGED <<fullFlag, totalFull, stack, pc, searched>>
    /\ moved' = NoMove
    /\ tried' = NoTried
    /\ UNCHANGED <<config, ring, totalObjectsAndPastCount, loopI, dups, adds>>

----------------------------------------------------------------------------
\* The diagnostics

\* lines 174-177: the loop of assignObjectServersTried with slot num in hand,
\* the slots of draws still to be drawn and the counter as it stands.  The
\* loop ends at a slot its condition does not reject; a draw adds one to the
\* counter when it lands on a slot of a server flagged full (line 176).  -1:
\* the call has not returned when the draws are used up.
RECURSIVE TriedLoop(_, _, _)
TriedLoop(num, draws, counter) ==
    IF ~Rejects(num) THEN IF draws = <<>> THEN counter ELSE -1
    ELSE IF draws = <<>> THEN -1
    ELSE LET next == Head(draws)
             hitFull == serversArray[next] # EmptySlot /\ fullFlag[serversArray[next]]
         IN  TriedLoop(next, Tail(draws),
                       IF hitFull THEN counter + 1 ELSE counter)

\* lines 172-178: what assignObjectServersTried returns when np.random.randint
\* gives the slots of draws, the first at line 172 and the others at line 175
CountServersTried(draws) == TriedLoop(Head(draws), Tail(draws), 1)

\* every sequence of at most MaxHist draws
DrawSeqs == UNION {[1 .. n -> Slots] : n \in 1 .. MaxHist}

\* lines 167-178: one call of assignObjectServersTried that returns.  It reads
\* serversArray and fullFlag and writes no field.
assignObjectServersTried ==
    /\ pc = "idle"
    /\ \E draws \in DrawSeqs :
        /\ CountServersTried(draws) # -1
        /\ tried' = [counter |-> CountServersTried(draws), draws |-> draws]
    /\ UNCHANGED <<pc, config, ring, registry, loopI, dups, stack, adds, removed,
                   searched, moved>>

\* lines 192-196: sum(self.fullFlag.values()) / len(self.fullFlag), as the
\* pair of the numerator and the denominator
pctOfFullBins ==
    <<Cardinality({k \in DOMAIN fullFlag : fullFlag[k]}),
      Cardinality(DOMAIN fullFlag)>>

----------------------------------------------------------------------------
Next ==
    \/ StartBegin
    \/ AssignDuplicate
    \/ StartProbe
    \/ addOneObject
    \/ AddRetry
    \/ removeOneObject
    \/ FillSearch
    \/ FillExhausted
    \/ FillAfterCall
    \/ assignObjectServersTried

Spec == Init /\ [][Next]_vars

\* Constructions that the class's documentation does not provide for, beside
\* one it does:
\* RandomJumpConsistentHashing(servers=2, duplicates=2, objects=4, epsilon=0)
\* asks for four slots of a ring of RingLen;
\* RandomJumpConsistentHashing(servers=2, duplicates=1, objects=0, epsilon=0)
\* has loadCap 0;
\* RandomJumpConsistentHashing(servers=2, duplicates=1, objects=3, epsilon=0)
\* has loadCap 2 and leaves one server short of it.
ConfigInit ==
    \/ InitWith(2, 2, 4, 0, 1, FALSE)
    \/ InitWith(2, 1, 0, 0, 1, FALSE)
    \/ InitWith(2, 1, 3, 0, 1, FALSE)

SpecConfig == ConfigInit /\ [][Next]_vars

\* The specification of a caller that lets a call run: a call of addOneObject
\* that is inside its probe loop draws again.
FairInit == InitWith(2, 1, 4, 0, 1, FALSE)

FairSpec == FairInit /\ [][Next]_vars /\ WF_vars(AddRetry)

----------------------------------------------------------------------------
\* The properties of the specification

\* The observable points: start() has returned, and no call is running.
Observable == pc = "idle"

\* The live objects
Live == DOMAIN objectsCurrent

RECURSIVE SumLoads(_)
SumLoads(keys) ==
    IF keys = {} THEN 0
    ELSE LET k == CHOOSE x \in keys : TRUE
         IN  servers[k] + SumLoads(keys \ {k})

\* Some live object on another server has a slot of server key in its history
MoverExists(key) ==
    \E i \in Live : \E s \in Range(serversToIdx[key]) :
        /\ s \in Range(objectsHistory[i])
        /\ serversArray[objectsCurrent[i]] # key

\* C1: in every state that start(), addOneObject and removeOneObject reach,
\* the steps of a cascade included, every server's load is between 0 and
\* loadCap.
C1_LoadWithinCap ==
    \A k \in DOMAIN servers : servers[k] >= 0 /\ servers[k] <= loadCap

\* C2: at every observable point a server is flagged full if and only if its
\* load is loadCap.
C2_FullFlagIffAtCap ==
    Observable => \A k \in DOMAIN servers : fullFlag[k] <=> (servers[k] = loadCap)

\* C3: when removeOneObject has taken an object from a server that was flagged
\* full and has returned, that server is full again, or it is one object short
\* and no live object on another server has one of its slots in its history.
C3_RefilledOrNoMover ==
    (Observable /\ removed.wasFull) =>
        LET k == removed.key
        IN  \/ servers[k] = loadCap /\ fullFlag[k]
            \/ servers[k] = loadCap - 1 /\ ~MoverExists(k)

\* C4: within one call of removeOneObject no server begins the mover search of
\* fillBinOne twice, so no two frames are of the same server and the depth of
\* the recursion is at most the number of servers.
C4_SearchedOncePerCascade ==
    /\ \A a, b \in DOMAIN searched : a # b => searched[a] # searched[b]
    /\ \A a, b \in DOMAIN stack : a # b => stack[a].key # stack[b].key
    /\ Len(stack) <= serversCount

\* C5: at every observable point the current slot of every live object is a
\* slot of the ring that a server owns, that server's contained set holds the
\* object, and no other server's does.
C5_ObjectOnExactlyOneServer ==
    Observable =>
        \A i \in Live :
            /\ objectsCurrent[i] \in Slots
            /\ serversArray[objectsCurrent[i]] # EmptySlot
            /\ \A k \in DOMAIN serversContains :
                   (i \in serversContains[k]) <=> (k = serversArray[objectsCurrent[i]])

\* C6: at every observable point every server's load is the size of its
\* contained set, and the loads add up to objectsCount, which is the number
\* of entries of objectsCurrent and of objectsHistory.
C6_LoadAccounting ==
    Observable =>
        /\ \A k \in DOMAIN servers : servers[k] = Cardinality(serversContains[k])
        /\ SumLoads(DOMAIN servers) = objectsCount
        /\ Cardinality(DOMAIN objectsCurrent) = objectsCount
        /\ DOMAIN objectsHistory = DOMAIN objectsCurrent

\* C7: at every observable point the history of every live object ends with
\* the object's current slot.
C7_HistoryEndsAtCurrent ==
    Observable =>
        \A i \in Live :
            /\ objectsHistory[i] # <<>>
            /\ objectsHistory[i][Len(objectsHistory[i])] = objectsCurrent[i]

\* C8 as stated: every slot in the history of a live object is a slot that a
\* server owns.
C8_HistoryOnlyOwnedSlots ==
    Observable =>
        \A i \in Live : \A n \in DOMAIN objectsHistory[i] :
            serversArray[objectsHistory[i][n]] # EmptySlot

\* C8, amended: every slot in the history of a live object is a slot of the
\* ring, owned or not, and the last one, which the placement accepted, is a
\* slot that a server owns.
C8_HistoryOfRingSlotsEndsOwned ==
    Observable =>
        \A i \in Live :
            LET h == objectsHistory[i]
            IN  /\ \A n \in DOMAIN h : h[n] \in Slots
                /\ h # <<>>
                /\ serversArray[h[Len(h)]] # EmptySlot

\* C9: every relocation of fillBinOne takes its object to a slot that the
\* refilled server owns, that was in the object's history before the move, and
\* that is of another server than the one the object leaves.
C9_RelocationFollowsHistory ==
    moved # NoMove =>
        /\ serversArray[moved.slot] = moved.key
        /\ moved.slot \in Range(moved.hist)
        /\ serversArray[moved.from] # serversArray[moved.slot]
        /\ objectsCurrent[moved.obj] = moved.slot

\* C10: addOneObject called when every server is flagged full changes nothing
\* and does not stay in its probe loop: no entry of the registries is written
\* for the new object.
C10_AddOnFullRingKeepsState ==
    (pc \in {"idle", "add"} /\ \A k \in DOMAIN fullFlag : fullFlag[k]) =>
        /\ pc = "idle"
        /\ totalObjectsAndPastCount \notin DOMAIN objectsHistory

\* the step places object i
NewlyPlaced(i) ==
    /\ i \in DOMAIN objectsCurrent'
    /\ objectsCurrent'[i] # Unplaced
    /\ i \in DOMAIN objectsCurrent => objectsCurrent[i] = Unplaced

\* what the step that places object i does
PlacementEffect(i) ==
    LET num == objectsCurrent'[i]
        k == serversArray[num]
    IN  /\ num \in Slots
        /\ k # EmptySlot
        /\ ~fullFlag[k]
        /\ i \notin serversContains[k]
        /\ serversContains'[k] = serversContains[k] \cup {i}
        /\ servers'[k] = servers[k] + 1
        /\ fullFlag'[k] <=> (servers'[k] = loadCap)
        /\ \A j \in (DOMAIN servers) \ {k} :
               /\ servers'[j] = servers[j]
               /\ fullFlag'[j] = fullFlag[j]
               /\ serversContains'[j] = serversContains[j]
        /\ \A j \in (DOMAIN objectsCurrent) \ {i} :
               /\ j \in DOMAIN objectsCurrent' /\ j \in DOMAIN objectsHistory'
               /\ objectsCurrent'[j] = objectsCurrent[j]
               /\ objectsHistory'[j] = objectsHistory[j]

\* C11: a placement, of the initial load or of addOneObject, takes a slot of a
\* server that is not flagged full; the object gets that slot as its current
\* slot and joins the server's contained set, the server's load grows by one
\* and its flag is set exactly when the load is now loadCap; no other server
\* and no other object changes.
C11_PlacementEffect ==
    [][\A i \in DOMAIN objectsCurrent' : NewlyPlaced(i) => PlacementEffect(i)]_vars

\* what the step that removes object o does
RemovalEffect(o) ==
    LET k == serversArray[objectsCurrent[o]]
    IN  /\ o \in serversContains[k]
        /\ serversContains'[k] = serversContains[k] \ {o}
        /\ servers'[k] = servers[k] - 1
        /\ ~fullFlag'[k]
        /\ \A j \in (DOMAIN servers) \ {k} :
               /\ servers'[j] = servers[j]
               /\ fullFlag'[j] = fullFlag[j]
               /\ serversContains'[j] = serversContains[j]
        /\ DOMAIN objectsCurrent' = (DOMAIN objectsCurrent) \ {o}
        /\ DOMAIN objectsHistory' = (DOMAIN objectsHistory) \ {o}
        /\ \A j \in DOMAIN objectsCurrent' :
               /\ objectsCurrent'[j] = objectsCurrent[j]
               /\ objectsHistory'[j] = objectsHistory[j]
        /\ ~fullFlag[k] => (pc' = "idle" /\ stack' = <<>> /\ moved' = NoMove)

\* C12: the removal of removeOneObject takes the object out of the contained
\* set of the server that owns its current slot, lowers that server's load by
\* one, leaves its flag cleared and deletes the object's current slot and
\* history; no other server and no other object changes.  When the server
\* was not flagged full no frame of fillBinOne is left running and nothing is
\* relocated.
C12_RemovalEffect ==
    [][\A o \in DOMAIN objectsCurrent :
          (pc = "idle" /\ o \notin DOMAIN objectsCurrent') => RemovalEffect(o)]_vars

\* start() has returned and no call has followed it that writes a field
StartReturned == pc = "idle" /\ adds = 0 /\ removed = NoRemoval

BadConfiguration ==
    \/ serversCount * duplicatesCount > RingLen
    \/ loadCap < 1

\* C14: a construction that asks for more slots than the ring has, or whose
\* loadCap is below 1, is refused: start() does not go on with it.
C14_BadConfigurationRefused == BadConfiguration => pc = "new"

\* start() has built the ring (lines 117-130)
RingBuilt == pc \notin {"new", "ring"}

\* the slots that server k owns
SlotsOf(k) == {s \in Slots : serversArray[s] = k}

\* the owned slots are duplicatesCount for each server, and those of its list
RingWellFormed ==
    /\ DOMAIN serversToIdx = DOMAIN servers
    /\ Cardinality({s \in Slots : serversArray[s] # EmptySlot})
           = serversCount * duplicatesCount
    /\ \A k \in DOMAIN servers :
           /\ Cardinality(SlotsOf(k)) = duplicatesCount
           /\ Len(serversToIdx[k]) = duplicatesCount
           /\ Range(serversToIdx[k]) = SlotsOf(k)

\* C15: once start() has built the ring, serversCount * duplicatesCount slots
\* are owned, every server owns duplicatesCount slots, which are the slots of
\* its serversToIdx list, each listed once; and no later step changes the
\* owner of a slot or a list.
C15_RingFixedOnceBuilt ==
    /\ [](RingBuilt => RingWellFormed)
    /\ [][RingBuilt => UNCHANGED ring]_vars

\* C16: a frame of fillBinOne moves no object into its server once the
\* server's load has reached loadCap: every relocation leaves the refilled
\* server with at most loadCap objects.
C16_NoMoveIntoFilledServer ==
    moved # NoMove => servers[moved.key] <= loadCap

RECURSIVE SumLens(_)
SumLens(objs) ==
    IF objs = {} THEN 0
    ELSE LET i == CHOOSE x \in objs : TRUE
         IN  Len(objectsHistory[i]) + SumLens(objs \ {i})

\* the entries of all the probe histories
TotalHistory == SumLens(DOMAIN objectsHistory)

\* what a frame of fillBinOne has left to do without relocating: the objects
\* and slots still to test, the test of line 321, its return
FrameWork(f) ==
    Cardinality(f.todo) + Len(f.rest) + (IF f.ret THEN 1 ELSE 0) + 1

RECURSIVE SumWork(_)
SumWork(frames) ==
    IF frames = <<>> THEN 0 ELSE FrameWork(Head(frames)) + SumWork(Tail(frames))

SearchWork == SumWork(stack)

\* a step of the running cascade
FillStep == FillSearch \/ FillExhausted \/ FillAfterCall

\* C17: every call of removeOneObject returns.  A running cascade can always
\* take a step; every relocation shortens the history of the object it moves
\* and no step of the cascade lengthens a history; a step that relocates
\* nothing uses up work of the frames.  So the pair (entries of the histories,
\* work of the frames) falls with every step and the cascade ends.
C17_CascadeTerminates ==
    /\ [](pc = "fill" => ENABLED FillStep)
    /\ [](moved # NoMove => Len(objectsHistory[moved.obj]) < Len(moved.hist))
    /\ [][pc = "fill" =>
            \A i \in DOMAIN objectsHistory :
                /\ i \in DOMAIN objectsHistory'
                /\ Len(objectsHistory'[i]) <= Len(objectsHistory[i])]_vars
    /\ [][pc = "fill" =>
            \/ TotalHistory' < TotalHistory
            \/ TotalHistory' = TotalHistory /\ SearchWork' < SearchWork]_vars

\* C18: a relocation to slot s leaves the moved object with the part of its
\* history that ends at the first s, and leaves every other history as it was.
C18_TruncationExact ==
    [][moved' # NoMove =>
          LET i == moved'.obj
              s == moved'.slot
              before == objectsHistory[i]
              after == objectsHistory'[i]
          IN  /\ after # <<>>
              /\ Len(after) <= Len(before)
              /\ \A n \in DOMAIN after : after[n] = before[n]
              /\ after[Len(after)] = s
              /\ \A n \in 1 .. (Len(after) - 1) : after[n] # s
              /\ DOMAIN objectsHistory' = DOMAIN objectsHistory
              /\ \A j \in (DOMAIN objectsHistory) \ {i} :
                     objectsHistory'[j] = objectsHistory[j]]_vars

\* a server is not flagged full
SomeServerNotFull == \E k \in DOMAIN fullFlag : ~fullFlag[k]

\* the history of the object that addOneObject is placing holds MaxHist draws
ProbesAtBound ==
    /\ totalObjectsAndPastCount \in DOMAIN objectsHistory
    /\ Len(objectsHistory[totalObjectsAndPastCount]) = MaxHist

OwnedProbes == {n \in DOMAIN tried.draws : serversArray[tried.draws[n]] # EmptySlot}

\* C20: assignObjectServersTried returns the number of its draws that landed
\* on a slot of a server, the accepted one counted and those on unowned slots
\* not counted.
C20_CountsOwnedProbes ==
    tried # NoTried => tried.counter = Cardinality(OwnedProbes)

----------------------------------------------------------------------------
\* Reachable states in which the properties above have something to say

\* C5: a removal from a full server has returned, and a relocated object has
\* refilled the server.
C5_Witness ==
    /\ Observable
    /\ removed.wasFull
    /\ fullFlag[removed.key]
    /\ Cardinality(Live) >= 3

\* C6: an object was added, one was then removed from a full server, and a
\* cascade has moved an object into that server.
C6_Witness ==
    /\ Observable
    /\ adds = 1
    /\ removed.wasFull
    /\ servers[removed.key] = loadCap

\* C7: after a removal, a live object of the seeded initial load has a shorter
\* history than the one start() recorded for it: fillBinOne has relocated it.
C7_Witness ==
    /\ Observable
    /\ seeded
    /\ removed # NoRemoval
    /\ \E i \in Live :
        /\ i + 1 \in DOMAIN SeedHistory
        /\ Len(objectsHistory[i]) < Len(SeedHistory[i + 1])
        /\ Len(objectsHistory[i]) >= 2

\* C8: a placed object whose history holds an unowned slot before the slot it
\* was given.
C8_Witness ==
    /\ Observable
    /\ \E i \in Live :
        /\ Len(objectsHistory[i]) >= 2
        /\ serversArray[objectsHistory[i][1]] = EmptySlot
        /\ serversArray[objectsCurrent[i]] # EmptySlot

\* C9: a relocation made by a frame that another frame of fillBinOne called,
\* of an object that had probed further slots after the one it moves to.
C9_Witness ==
    /\ moved # NoMove
    /\ Len(stack) >= 2
    /\ Len(moved.hist) >= 3

\* C11: addOneObject has placed an object after probing a slot it could not
\* take, and the placement has filled the server.
C11_Witness ==
    /\ Observable
    /\ adds = 1
    /\ removed = NoRemoval
    /\ LET i == totalObjectsAndPastCount - 1
       IN  /\ i \in Live
           /\ Len(objectsHistory[i]) >= 2
           /\ fullFlag[serversArray[objectsCurrent[i]]]

\* C12: removeOneObject has returned after taking an object from a server
\* that was not flagged full.
C12_Witness ==
    /\ Observable
    /\ removed # NoRemoval
    /\ ~removed.wasFull
    /\ tried = NoTried

C15_Witness ==
    /\ Observable
    /\ duplicatesCount = 2
    /\ removed.wasFull
    /\ Cardinality(SlotsOf(0)) = 2

\* C17: a cascade three frames deep.
C17_Witness ==
    /\ pc = "fill"
    /\ Len(stack) >= 3
    /\ Len(searched) >= 3

\* C18: a relocation to a slot that the object had probed twice, which drops
\* two entries of its history.
C18_Witness ==
    /\ moved # NoMove
    /\ Len(moved.hist) = 3
    /\ moved.hist[1] = moved.slot /\ moved.hist[2] = moved.slot
    /\ Len(objectsHistory[moved.obj]) = 1

====
